---- MODULE Spec2Model ----
(***************************************************************************)
(* A model of oncall/auth/__init__.py: HMAC request signing for            *)
(* applications, session + CSRF validation for users, the four            *)
(* authorization checks and the login_required / debug_only wrappers.      *)
(*                                                                         *)
(* Python strings that the code parses or concatenates are sequences of    *)
(* one-character strings, so that startswith, split and '%s %s %s %s' are  *)
(* computed the way the code computes them.                                *)
(***************************************************************************)
EXTENDS Integers, Sequences, FiniteSets, TLC

VARIABLES
    now,            \* time.time(), in whole seconds
    application,    \* table `application`: name -> key
    app_key_cache,  \* module global app_key_cache (line 18)
    user_god,       \* table `user`: the names whose `god` column is TRUE
    team,           \* table `team`: id -> name
    team_user,      \* table `team_user`: set of <<team id, user name>>
    team_admin,     \* table `team_admin`: set of <<team id, user name>>
    session_csrf,   \* table `session`: session id -> csrf_token
    bound,          \* the module globals that init() rebinds
    inited,         \* init() has run
    decorated,      \* what the decorators returned when the handlers were defined
    last,           \* the operation of the request being served, with its result
    not_found,      \* history: application names answered 'Application not found'
    inflight        \* worker -> the authenticate_application call it is running

vars == <<now, application, app_key_cache, user_god, team, team_user, team_admin,
          session_csrf, bound, inited, decorated, last, not_found, inflight>>

-----------------------------------------------------------------------------
(* Bounds *)

MaxTime == 16

\* the requests the server works on at the same time
MaxWorkers == 2

-----------------------------------------------------------------------------
(* Python string operations *)

\* s.startswith(p)
startswith(s, p) == Len(s) >= Len(p) /\ SubSeq(s, 1, Len(p)) = p

\* s[n:]
slice_from(s, n) == SubSeq(s, n + 1, Len(s))

\* s.find(c) + 1 for a one-character c: the first position of c, 0 when absent
find(s, c) ==
    IF \E i \in 1..Len(s) : s[i] = c
    THEN CHOOSE i \in 1..Len(s) : s[i] = c /\ \A j \in 1..(i - 1) : s[j] # c
    ELSE 0

\* s.partition(c) in place of s.split(c, 1): two parts even when c is absent
split_1_always_two(s, c) ==
    IF find(s, c) = 0 THEN <<s, <<>>>>
    ELSE <<SubSeq(s, 1, find(s, c) - 1), SubSeq(s, find(s, c) + 1, Len(s))>>

\* s.split(c, 1): one part when c is absent, else the text before the first c
\* and everything after it
split_1(s, c) ==
    IF find(s, c) = 0 THEN <<s>>
    ELSE <<SubSeq(s, 1, find(s, c) - 1), SubSeq(s, find(s, c) + 1, Len(s))>>

Digit(d) == <<"0", "1", "2", "3", "4", "5", "6", "7", "8", "9">>[d + 1]

\* '%s' % n for an integer n
RECURSIVE str_int(_)
str_int(n) ==
    IF n < 0 THEN <<"-">> \o str_int(-n)
    ELSE IF n < 10 THEN <<Digit(n)>>
    ELSE str_int(n \div 10) \o <<Digit(n % 10)>>

SP == <<" ">>

-----------------------------------------------------------------------------
(* Values *)

None == "None"
NoException == "none"

SVC_A == <<"s", "v", "c", "-", "a">>
SVC_B == <<"s", "v", "c", "-", "b">>
AppNames == {SVC_A, SVC_B}

Keys == {"K1", "K2"}
\* the key an application is issued when it is registered
IssuedKey(name) == IF name = SVC_A THEN "K1" ELSE "K2"

GET == <<"G", "E", "T">>
POST == <<"P", "O", "S", "T">>
Methods == {GET, POST}
Paths == {<<"/", "a">>, <<"/", "a", "?", "b">>}
QueryStrings == {<<>>, <<"b">>}
Bodies == {<<>>, <<"x">>}

\* what a client signs and what a request presents
Tuples == [method : Methods, path : Paths, qs : QueryStrings, body : Bodies]

Idle == [op |-> "none"]

-----------------------------------------------------------------------------
(* Digest authentication of applications *)

\* the width of a time window, in seconds: int(time.time()) // 5
WINDOW == 5

\* hmac.new(api_key, text, hashlib.sha512).digest(): a collision-free function of
\* the key and the text, which is what the protocol assumes of HMAC-SHA512
hmac_sha512(api_key, text) == <<api_key, text>>

\* base64.urlsafe_b64encode: injective, and its output holds neither ' ' nor ':'.
\* The 88 characters of an encoded digest are one token of the string.
urlsafe_b64encode(d) == <<ToString(d)>>

\* streql.equals: string equality (in constant time)
equals(a, b) == a = b

\* the text that is signed: '%s %s %s %s' % (window, method, path, body)
signed_text(window, method, path, body) ==
    str_int(window) \o SP \o method \o SP \o path \o SP \o body

is_client_digest_valid(client_digest, api_key, window, method, path, body) ==
    LET text == signed_text(window, method, path, body)
        digest == urlsafe_b64encode(hmac_sha512(api_key, text))
    IN  equals(client_digest, digest)

\* path = req.env['PATH_INFO']; if qs: path = path + '?' + qs
path_with_query(path, qs) == IF qs # <<>> THEN path \o <<"?">> \o qs ELSE path

HMAC_PREFIX == <<"h", "m", "a", "c", " ">>

Unauthorized(reason, cache, context, connects) ==
    [raised |-> "HTTPUnauthorized", reason |-> reason, cache |-> cache,
     context |-> context, connects |-> connects, closes |-> connects]

Returned(cache, context, connects) ==
    [raised |-> NoException, reason |-> "", cache |-> cache,
     context |-> context, connects |-> connects, closes |-> connects]

\* cursor.execute('SELECT `key` FROM `application` WHERE `name` = %s', app_name):
\* the rows of the result
select_key(app_name) ==
    IF app_name \in DOMAIN application THEN <<application[app_name]>> ELSE <<>>

\* a lookup that also caches the miss, as a None entry
cache_after_lookup_negative(app_name, rows) ==
    IF Len(rows) > 0 THEN (app_name :> rows[1]) @@ app_key_cache
    ELSE (app_name :> None) @@ app_key_cache

\* a lookup that rebinds the cache to a new dict holding the one entry
cache_after_lookup_rebinds(app_name, rows) ==
    IF Len(rows) > 0 THEN (app_name :> rows[1]) ELSE app_key_cache

\* lines 151-157: a row found is cached, no row leaves the cache as it is
cache_after_lookup(app_name, rows) ==
    IF Len(rows) > 0 THEN (app_name :> rows[1]) @@ app_key_cache ELSE app_key_cache

\* a window rounded up instead of down
current_window_ceiling(t) == (t + WINDOW - 1) \div WINDOW

\* window = int(time.time()) // 5
current_window(t) == t \div WINDOW

\* a second try that repeats the current window
previous_window_none(window) == window

\* the second window that is tried (line 164)
previous_window(window) == window - 1

\* lines 147-168, with the header split into app_name and client_digest
authenticate_named(app_name, client_digest, method, path, req) ==
    LET miss == app_name \notin DOMAIN app_key_cache
        connects == IF miss THEN 1 ELSE 0
        cache == IF miss THEN cache_after_lookup(app_name, select_key(app_name))
                 ELSE app_key_cache
    IN  IF miss /\ Len(select_key(app_name)) = 0
        THEN Unauthorized("Application not found", cache, req.context, connects)
        ELSE
        LET api_key == cache[app_name]
            body == req.context.body
            window == current_window(now)
        IN  IF is_client_digest_valid(client_digest, api_key, window, method, path, body)
            THEN Returned(cache, ("app" :> app_name) @@ req.context, connects)
            ELSE IF is_client_digest_valid(client_digest, api_key, previous_window(window),
                                           method, path, body)
            THEN Returned(cache, ("app" :> app_name) @@ req.context, connects)
            ELSE Unauthorized("Wrong digest", cache, req.context, connects)

\* authenticate_application(auth_token, req): the exception it raises (or none),
\* app_key_cache and req.context as it leaves them, and the number of store
\* connections it opened
authenticate_application(auth_token, req) ==
    IF ~startswith(auth_token, HMAC_PREFIX)
    THEN Unauthorized("Invalid digest format", app_key_cache, req.context, 0)
    ELSE
    LET method == req.method
        path == path_with_query(req.env.PATH_INFO, req.env.QUERY_STRING)
        parts == split_1(slice_from(auth_token, Len(HMAC_PREFIX)), ":")
    IN  IF Len(parts) # 2
        THEN \* app_name, client_digest = ... raises ValueError, caught at line 169
             Unauthorized("Wrong digest", app_key_cache, req.context, 0)
        ELSE authenticate_named(parts[1], parts[2], method, path, req)

-----------------------------------------------------------------------------
(* The signing client (the protocol's other side) *)

\* the header a client holding `key` builds at unix time t for the request tuple s
client_digest_at(key, t, s) ==
    urlsafe_b64encode(hmac_sha512(key,
        signed_text(t \div WINDOW, s.method, path_with_query(s.path, s.qs), s.body)))

HeaderKinds == {"signed", "no prefix", "upper prefix", "no separator", "bad digest"}

client_header(kind, name, key, t, s) ==
    CASE kind = "signed"       -> HMAC_PREFIX \o name \o <<":">> \o client_digest_at(key, t, s)
      [] kind = "no prefix"    -> name \o <<":">> \o client_digest_at(key, t, s)
      [] kind = "upper prefix" -> <<"H", "M", "A", "C", " ">> \o name \o <<":">>
                                      \o client_digest_at(key, t, s)
      [] kind = "no separator" -> HMAC_PREFIX \o name \o client_digest_at(key, t, s)
      [] kind = "bad digest"   -> HMAC_PREFIX \o name \o <<":">> \o <<"x">>

\* a falcon Request carrying the tuple p
Request(p, context) ==
    [method |-> p.method,
     env |-> [PATH_INFO |-> p.path, QUERY_STRING |-> p.qs],
     context |-> context]

\* the components in which the presented tuple differs from the signed one
Changed(s, p) == {f \in {"method", "path", "qs", "body"} : s[f] # p[f]}


-----------------------------------------------------------------------------
(* The workers of the server *)

Workers == 1..MaxWorkers

\* no call of authenticate_application is in progress
NoRequests == [w \in Workers |-> [pc |-> "idle"]]

-----------------------------------------------------------------------------
(* Module state and init() *)

EmptyMap == <<>>

\* no handler module has been imported yet
NotDecorated == [login_required |-> None, debug_only |-> None]

\* the module globals as the module body leaves them (lines 17-216)
ModuleBindings ==
    [authenticate_user |-> "_authenticate_user",
     check_user_auth |-> "def", check_team_auth |-> "def",
     check_calendar_auth |-> "def", check_calendar_auth_by_id |-> "def",
     debug_only |-> "def", login_required |-> "def"]

\* the rebinding done by init() under config['debug'] (lines 228-242)
DebugBindings(b) ==
    [b EXCEPT !.authenticate_user = "authenticate_user_test_wrapper",
              !.check_team_auth = "lambda", !.check_user_auth = "lambda",
              !.check_calendar_auth = "lambda", !.check_calendar_auth_by_id = "lambda",
              !.debug_only = "lambda"]

\* for row in cursor: app_key_cache[row[0]] = row[1] (lines 251-253)
load_applications(cache) ==
    [n \in DOMAIN application \cup DOMAIN cache |->
        IF n \in DOMAIN application THEN application[n] ELSE cache[n]]

Configs == [debug : BOOLEAN, docs : BOOLEAN]

\* init(application, config)
init(config) ==
    /\ ~inited
    /\ inited' = TRUE
    /\ LET b == IF config.debug THEN DebugBindings(bound) ELSE bound
       IN  bound' = IF config.docs THEN [b EXCEPT !.login_required = "lambda"] ELSE b
    /\ app_key_cache' = IF config.docs THEN app_key_cache
                        ELSE load_applications(app_key_cache)
    /\ UNCHANGED <<now, application, user_god, team, team_user, team_admin,
                   session_csrf, last, not_found, decorated, inflight>>

-----------------------------------------------------------------------------
(* The environment *)

\* the clock read by time.time() advances
Tick ==
    /\ last = Idle
    /\ now < MaxTime
    /\ now' = now + 1
    /\ UNCHANGED <<application, app_key_cache, user_god, team, team_user, team_admin,
                   session_csrf, bound, inited, decorated, last, not_found, inflight>>

\* an application is registered in the store while the process runs
RegisterApp(name) ==
    /\ last = Idle
    /\ name \notin DOMAIN application
    /\ application' = (name :> IssuedKey(name)) @@ application
    /\ UNCHANGED <<now, app_key_cache, user_god, team, team_user, team_admin,
                   session_csrf, bound, inited, decorated, last, not_found, inflight>>

\* the response is sent and the next request is taken
Respond ==
    /\ last # Idle
    /\ last.op = "login_required" => last.pc \in {"raised", "returned"}
    /\ last' = Idle
    /\ UNCHANGED <<now, application, app_key_cache, user_god, team, team_user, team_admin,
                   session_csrf, bound, inited, decorated, not_found, inflight>>

-----------------------------------------------------------------------------
(* Requests to authenticate_application *)

\* a request leaves the body middleware with its body in the context
FreshContext(p) == [body |-> p.body]

\* authenticate_application is called for a request presenting the tuple p with a
\* header a client built at time t over the tuple s
AuthenticateApplicationWith(kind, name, key, t, s, p) ==
    LET auth_token == client_header(kind, name, key, t, s)
        req == Request(p, FreshContext(p))
    IN  \E r \in {authenticate_application(auth_token, req)} :
        /\ app_key_cache' = r.cache
        /\ last' = [op |-> "authenticate_application", raised |-> r.raised,
                    reason |-> r.reason, context |-> r.context, connects |-> r.connects,
                    kind |-> kind, name |-> name, key |-> key, t |-> t,
                    changed |-> Changed(s, p),
                    registered |-> name \in DOMAIN application,
                    cached |-> name \in DOMAIN app_key_cache]
        /\ not_found' = IF r.reason = "Application not found"
                        THEN not_found \cup {name} ELSE not_found

\* a client signs the request at time t and the request arrives unchanged
SignedRequest ==
    /\ inited
    /\ last = Idle
    /\ \E name \in AppNames, t \in 0..MaxTime, s \in Tuples :
          AuthenticateApplicationWith("signed", name, IssuedKey(name), t, s, s)
    /\ UNCHANGED <<now, application, user_god, team, team_user, team_admin,
                   session_csrf, bound, inited, decorated, inflight>>

\* a request whose header is malformed, carries no digest of the text, or was
\* signed with a key that is not the application's
ForgedRequest ==
    /\ inited
    /\ last = Idle
    /\ \E name \in AppNames, s \in Tuples, kind \in HeaderKinds, key \in Keys :
          /\ kind = "signed" => key # IssuedKey(name)
          /\ AuthenticateApplicationWith(kind, name, key, now, s, s)
    /\ UNCHANGED <<now, application, user_god, team, team_user, team_admin,
                   session_csrf, bound, inited, decorated, inflight>>

\* a digest signed in the current window over the tuple s is presented with the
\* different tuple p (the digest depends on the window, not on the second in it)
TamperedRequest ==
    /\ inited
    /\ last = Idle
    /\ \E name \in AppNames, s \in Tuples :
          \E p \in Tuples \ {s} :
             AuthenticateApplicationWith("signed", name, IssuedKey(name), now, s, p)
    /\ UNCHANGED <<now, application, user_god, team, team_user, team_admin,
                   session_csrf, bound, inited, decorated, inflight>>

InitDigest ==
    /\ decorated = NotDecorated
    /\ now = 0
    /\ application = SVC_A :> IssuedKey(SVC_A)
    /\ app_key_cache = EmptyMap
    /\ user_god = {}
    /\ team = EmptyMap
    /\ team_user = {}
    /\ team_admin = {}
    /\ session_csrf = EmptyMap
    /\ bound = ModuleBindings
    /\ inited = FALSE
    /\ last = Idle
    /\ not_found = {}
    /\ inflight = NoRequests

NextDigest ==
    \/ init([debug |-> FALSE, docs |-> FALSE])
    \/ Tick
    \/ \E name \in AppNames : RegisterApp(name)
    \/ SignedRequest
    \/ ForgedRequest
    \/ TamperedRequest
    \/ Respond

DigestSpec == InitDigest /\ [][NextDigest]_vars


-----------------------------------------------------------------------------
(* Authorization checks *)

Users == {"alice", "bob"}
TeamIds == {1, 2}
\* the rows of table `team`
TeamTable == (1 :> "sre") @@ (2 :> "ops")
\* the team names and ids handlers pass, one of each naming no team
TeamNameArgs == {"sre", "ops", "nope"}
TeamIdArgs == {1, 2, 3}

Allowed(connects) == [raised |-> NoException, message |-> <<>>, connects |-> connects]

Forbidden(message, connects) ==
    [raised |-> "HTTPForbidden", message |-> message, connects |-> connects]

\* req.context['user'] of a context that holds no user
KeyError(connects) == [raised |-> "KeyError", message |-> <<>>, connects |-> connects]

\* an is_god that answers the opposite
is_god_negated(challenger) == challenger \notin user_god

\* is_god(challenger): SELECT `id` FROM `user` WHERE `god` = TRUE AND `name` = %s
\* has a row
is_god(challenger) == challenger \in user_god

\* a test for 'app' that never succeeds
app_in_context_never(req) == FALSE

\* 'app' in req.context
app_in_context(req) == "app" \in DOMAIN req.context

\* a query that forgets the join on team_id: the members of any team
get_allowed_users_any_team(challenger) ==
    {u \in Users : \E t \in TeamIds, t2 \in TeamIds :
                      <<t, challenger>> \in team_admin /\ <<t2, u>> \in team_user}

\* get_allowed_query of check_user_auth (lines 48-54): the names of the members
\* of the teams `challenger` is an admin of
get_allowed_users(challenger) ==
    {u \in Users : \E t \in TeamIds :
                      <<t, challenger>> \in team_admin /\ <<t, u>> \in team_user}

\* a query over team_user in place of team_admin: the teams one is a member of
get_allowed_teams_as_member(challenger) ==
    {team[t] : t \in {t \in DOMAIN team : <<t, challenger>> \in team_user}}

\* get_allowed_query of check_team_auth (lines 72-77): the names of the teams
\* `challenger` is an admin of
get_allowed_teams(challenger) ==
    {team[t] : t \in {t \in DOMAIN team : <<t, challenger>> \in team_admin}}

\* (SELECT `id` FROM `team` WHERE `name` = %s): the ids of the teams of that name
team_ids_named(name) == {t \in DOMAIN team : team[t] = name}

\* a membership query that leaves out the members who are admins of the team
user_in_team_by_id_plain_members(team_id, challenger) ==
    Cardinality({row \in team_user \ team_admin :
                    row[1] = team_id /\ row[2] = challenger})

\* cursor.rowcount of the membership query of check_calendar_auth_by_id
user_in_team_by_id(team_id, challenger) ==
    Cardinality({row \in team_user : row[1] = team_id /\ row[2] = challenger})

\* a membership query that forgets the team: the rows of the user in any team
user_in_team_any_name(name, challenger) ==
    Cardinality({row \in team_user : row[2] = challenger})

\* cursor.rowcount of the membership query of check_calendar_auth
user_in_team(name, challenger) ==
    Cardinality({row \in team_user : row[1] \in team_ids_named(name) /\ row[2] = challenger})

check_user_auth(user, req) ==
    IF app_in_context(req) THEN Allowed(0)
    ELSE IF "user" \notin DOMAIN req.context THEN KeyError(0)
    ELSE LET challenger == req.context.user
         IN  IF user = challenger THEN Allowed(0)
             ELSE IF user \in get_allowed_users(challenger) THEN Allowed(1)
             ELSE IF is_god(challenger) THEN Allowed(2)
             ELSE Forbidden(<<"Action not allowed for", challenger>>, 2)

check_team_auth(team_name, req) ==
    IF app_in_context(req) THEN Allowed(0)
    ELSE IF "user" \notin DOMAIN req.context THEN KeyError(0)
    ELSE LET challenger == req.context.user
         IN  IF team_name \in get_allowed_teams(challenger) THEN Allowed(1)
             ELSE IF is_god(challenger) THEN Allowed(2)
             ELSE Forbidden(<<"Action not allowed: is not an admin for",
                              challenger, team_name>>, 2)

\* check_calendar_auth(team, req, user=None)
check_calendar_auth(team_name, req, user) ==
    IF app_in_context(req) THEN Allowed(0)
    ELSE IF user = None /\ "user" \notin DOMAIN req.context THEN KeyError(0)
    ELSE LET challenger == IF user # None THEN user ELSE req.context.user
         IN  IF user_in_team(team_name, challenger) # 0 THEN Allowed(1)
             ELSE IF is_god(challenger) THEN Allowed(2)
             ELSE Forbidden(<<"Action not allowed: is not part of",
                              challenger, team_name>>, 2)

check_calendar_auth_by_id(team_id, req) ==
    IF app_in_context(req) THEN Allowed(0)
    ELSE IF "user" \notin DOMAIN req.context THEN KeyError(0)
    ELSE LET challenger == req.context.user
         IN  IF user_in_team_by_id(team_id, challenger) # 0 THEN Allowed(1)
             ELSE IF is_god(challenger) THEN Allowed(2)
             ELSE Forbidden(<<"Action not allowed: is not a team member", challenger>>, 2)

\* the lambdas init() binds under config['debug'] (lines 238-241): return True
debug_check == Allowed(0)

-----------------------------------------------------------------------------
(* Handlers calling the authorization checks *)

\* req.context as authentication leaves it: the user of a session, or the
\* application of a verified digest
UserContexts == {[body |-> <<>>, user |-> u] : u \in Users}
AppContexts == {("app" :> a) @@ [body |-> <<>>] : a \in AppNames}
AuthenticatedContexts == UserContexts \cup AppContexts

PolicyUnchanged ==
    UNCHANGED <<now, application, app_key_cache, user_god, team, team_user, team_admin,
                session_csrf, bound, inited, decorated, not_found, inflight>>

Checked(op, fn, target, context, user, r) ==
    last' = [op |-> op, fn |-> fn, target |-> target, context |-> context,
             user |-> user, raised |-> r.raised, message |-> r.message,
             connects |-> r.connects]

CallCheckUserAuth ==
    /\ inited /\ last = Idle
    /\ \E user \in Users, context \in AuthenticatedContexts :
          Checked("check_user_auth", bound.check_user_auth, user, context, None,
                  IF bound.check_user_auth = "def"
                  THEN check_user_auth(user, [context |-> context]) ELSE debug_check)
    /\ PolicyUnchanged

CallCheckTeamAuth ==
    /\ inited /\ last = Idle
    /\ \E name \in TeamNameArgs, context \in AuthenticatedContexts :
          Checked("check_team_auth", bound.check_team_auth, name, context, None,
                  IF bound.check_team_auth = "def"
                  THEN check_team_auth(name, [context |-> context]) ELSE debug_check)
    /\ PolicyUnchanged

CallCheckCalendarAuth ==
    /\ inited /\ last = Idle
    /\ \E name \in TeamNameArgs, context \in AuthenticatedContexts,
          user \in Users \cup {None} :
          Checked("check_calendar_auth", bound.check_calendar_auth, name, context, user,
                  IF bound.check_calendar_auth = "def"
                  THEN check_calendar_auth(name, [context |-> context], user)
                  ELSE debug_check)
    /\ PolicyUnchanged

CallCheckCalendarAuthById ==
    /\ inited /\ last = Idle
    /\ \E team_id \in TeamIdArgs, context \in AuthenticatedContexts :
          Checked("check_calendar_auth_by_id", bound.check_calendar_auth_by_id, team_id,
                  context, None,
                  IF bound.check_calendar_auth_by_id = "def"
                  THEN check_calendar_auth_by_id(team_id, [context |-> context])
                  ELSE debug_check)
    /\ PolicyUnchanged

\* TeamAdmin relates a team to a subset of its members: the handlers that
\* write the two relations keep every admin of a team a member of it
AdminsAreMembers(admins, members) == admins \subseteq members

\* the store's relations change between requests (other handlers write them)
SetGod(u, flag) ==
    /\ last = Idle
    /\ user_god' = IF flag THEN user_god \cup {u} ELSE user_god \ {u}
    /\ user_god' # user_god
    /\ UNCHANGED <<now, application, app_key_cache, team, team_user, team_admin,
                   session_csrf, bound, inited, decorated, last, not_found, inflight>>

SetTeamUser(t, u, flag) ==
    /\ last = Idle
    /\ team_user' = IF flag THEN team_user \cup {<<t, u>>} ELSE team_user \ {<<t, u>>}
    /\ team_user' # team_user
    /\ AdminsAreMembers(team_admin, team_user')
    /\ UNCHANGED <<now, application, app_key_cache, user_god, team, team_admin,
                   session_csrf, bound, inited, decorated, last, not_found, inflight>>

SetTeamAdmin(t, u, flag) ==
    /\ last = Idle
    /\ team_admin' = IF flag THEN team_admin \cup {<<t, u>>} ELSE team_admin \ {<<t, u>>}
    /\ team_admin' # team_admin
    /\ AdminsAreMembers(team_admin', team_user)
    /\ UNCHANGED <<now, application, app_key_cache, user_god, team, team_user,
                   session_csrf, bound, inited, decorated, last, not_found, inflight>>

InitPolicy ==
    /\ decorated = NotDecorated
    /\ now = 0
    /\ application = SVC_A :> IssuedKey(SVC_A)
    /\ app_key_cache = EmptyMap
    /\ user_god = {}
    /\ team = TeamTable
    /\ team_user = {}
    /\ team_admin = {}
    /\ session_csrf = EmptyMap
    /\ bound = ModuleBindings
    /\ inited = FALSE
    /\ last = Idle
    /\ not_found = {}
    /\ inflight = NoRequests

NextPolicy ==
    \/ \E debug \in BOOLEAN : init([debug |-> debug, docs |-> FALSE])
    \/ \E u \in Users, flag \in BOOLEAN : SetGod(u, flag)
    \/ \E t \in TeamIds, u \in Users, flag \in BOOLEAN : SetTeamUser(t, u, flag)
    \/ \E t \in TeamIds, u \in Users, flag \in BOOLEAN : SetTeamAdmin(t, u, flag)
    \/ CallCheckUserAuth
    \/ CallCheckTeamAuth
    \/ CallCheckCalendarAuth
    \/ CallCheckCalendarAuthById
    \/ Respond

PolicySpec == InitPolicy /\ [][NextPolicy]_vars

-----------------------------------------------------------------------------
(* Session authentication of users *)

SessionIds == {"s1"}
Tokens == {"tok", ""}
\* the X-CSRF-TOKEN header: absent, or one of these values
CsrfHeaders == {EmptyMap} \cup {"X-CSRF-TOKEN" :> c : c \in {"", "tok", "bad"}}

\* req.get_header(name): None when the request has no such header
get_header(req, name) == IF name \in DOMAIN req.headers THEN req.headers[name] ELSE None
\* req.env['beaker.session']: with or without a user, with or without an id
Sessions ==
    {EmptyMap, [_id |-> "s1"], [user |-> "alice"], [user |-> "alice", _id |-> "s1"]}
\* table `session`: no row, a row with a token, a row whose csrf_token is NULL
SessionTables == {EmptyMap} \cup {[i \in SessionIds |-> tok] : tok \in Tokens \cup {None}}

\* _authenticate_user(req)
_authenticate_user(req) ==
    LET session == req.env.beaker_session
    IN  IF "user" \notin DOMAIN session
        THEN \* KeyError from session['user'], caught at line 195
             Unauthorized("User must be logged in", app_key_cache, req.context, 0)
        ELSE
        LET context == ("user" :> session.user) @@ req.context
        IN  IF "_id" \notin DOMAIN session
            THEN \* KeyError from session['_id'], after db.connect(): nothing is closed
                 [Unauthorized("User must be logged in", app_key_cache, context, 1)
                     EXCEPT !.closes = 0]
            ELSE IF session._id \notin DOMAIN session_csrf
            THEN Unauthorized("CSRF token missing", app_key_cache, context, 1)
            ELSE IF get_header(req, "X-CSRF-TOKEN") # session_csrf[session._id]
            THEN Unauthorized("CSRF validation failed", app_key_cache, context, 1)
            ELSE Returned(app_key_cache, context, 1)

\* authenticate_user_test_wrapper(req) of init() (lines 229-234)
authenticate_user_test_wrapper(req) ==
    LET r == _authenticate_user(req)
    IN  IF r.raised = "HTTPUnauthorized"
        THEN [r EXCEPT !.raised = NoException, !.reason = "",
                       !.context = ("user" :> "test_user") @@ r.context]
        ELSE r

\* the test wrapper bound whatever the configuration says
authenticate_user_always_test_wrapper(req) == authenticate_user_test_wrapper(req)

\* the call authenticate_user(req) of the wrapper: the global as it is bound
authenticate_user(req) ==
    IF bound.authenticate_user = "_authenticate_user"
    THEN _authenticate_user(req)
    ELSE authenticate_user_test_wrapper(req)

-----------------------------------------------------------------------------
(* login_required and debug_only *)

\* a test for the presence of the header: if auth_token is not None:
has_auth_token_is_not_none(req) == "AUTHORIZATION" \in DOMAIN req.headers

\* auth_token = req.get_header('AUTHORIZATION'); if auth_token: (None and ''
\* are both false)
has_auth_token(req) ==
    "AUTHORIZATION" \in DOMAIN req.headers /\ req.headers["AUTHORIZATION"] # <<>>

\* the authenticator the wrapper calls
selected_authenticator(req) ==
    IF has_auth_token(req) THEN "authenticate_application" ELSE "authenticate_user"

\* a wrapper that goes on to the function whatever the authenticator raised
after_authentication_always(r) == "function"

\* line 214 is reached when the authenticator returned; an exception leaves the
\* wrapper
after_authentication(r) == IF r.raised = NoException THEN "function" ELSE "raised"

\* the request tuple of the guarded requests
GuardedTuple == [method |-> GET, path |-> <<"/", "a">>, qs |-> <<>>, body |-> <<>>]

\* the AUTHORIZATION header: absent, empty, or built by a client of svc-a
AuthorizationHeaders ==
    {EmptyMap, "AUTHORIZATION" :> <<>>}
    \cup {"AUTHORIZATION" :> client_header(kind, SVC_A, IssuedKey(SVC_A), now, GuardedTuple) :
             kind \in {"signed", "no prefix", "no separator", "bad digest"}}

GuardedRequest(auth, session, csrf) ==
    [method |-> GuardedTuple.method,
     env |-> [PATH_INFO |-> GuardedTuple.path, QUERY_STRING |-> GuardedTuple.qs,
              beaker_session |-> session],
     headers |-> auth @@ csrf,
     context |-> FreshContext(GuardedTuple)]

GuardUnchanged ==
    UNCHANGED <<now, application, user_god, team, team_user, team_admin,
                session_csrf, bound, inited, decorated, not_found, inflight>>

\* a handler module is imported: @login_required is applied as it is bound then
DecorateLoginRequired ==
    /\ last = Idle
    /\ decorated.login_required = None
    /\ decorated' = [decorated EXCEPT !.login_required = bound.login_required]
    /\ UNCHANGED <<now, application, app_key_cache, user_god, team, team_user, team_admin,
                   session_csrf, bound, inited, last, not_found, inflight>>

\* a handler module is imported: @debug_only is applied as it is bound then
DecorateDebugOnly ==
    /\ last = Idle
    /\ decorated.debug_only = None
    /\ decorated' = [decorated EXCEPT !.debug_only = bound.debug_only]
    /\ UNCHANGED <<now, application, app_key_cache, user_god, team, team_user, team_admin,
                   session_csrf, bound, inited, last, not_found, inflight>>

\* a request reaches a handler defined under @login_required: the wrapper of
\* lines 203-214 is entered, or the function itself where the decorator was the
\* identity (line 247)
CallGuardedHandler ==
    /\ inited
    /\ last = Idle
    /\ decorated.login_required # None
    /\ \E auth \in AuthorizationHeaders, session \in Sessions, csrf \in CsrfHeaders :
          last' = [op |-> "login_required",
                   pc |-> IF decorated.login_required = "def" THEN "wrapper" ELSE "function",
                   req |-> GuardedRequest(auth, session, csrf),
                   authenticators |-> <<>>,
                   function_calls |-> 0,
                   raised |-> NoException, reason |-> "",
                   connects |-> 0, closes |-> 0]
    /\ app_key_cache' = app_key_cache
    /\ GuardUnchanged

\* lines 209-213: the wrapper calls the authenticator it selects
WrapperAuthenticates ==
    /\ last # Idle
    /\ last.op = "login_required"
    /\ last.pc = "wrapper"
    /\ LET req == last.req
       IN  \E r \in {IF has_auth_token(req)
                     THEN authenticate_application(req.headers["AUTHORIZATION"], req)
                     ELSE authenticate_user(req)} :
              /\ app_key_cache' = r.cache
              /\ last' = [last EXCEPT
                             !.pc = after_authentication(r),
                             !.req = [req EXCEPT !.context = r.context],
                             !.authenticators =
                                 Append(@, selected_authenticator(req)),
                             !.raised = r.raised, !.reason = r.reason,
                             !.connects = r.connects, !.closes = r.closes]
    /\ GuardUnchanged

\* line 214: return function(*args, **kwargs)
WrapperCallsFunction ==
    /\ last # Idle
    /\ last.op = "login_required"
    /\ last.pc = "function"
    /\ last' = [last EXCEPT !.pc = "returned", !.function_calls = @ + 1]
    /\ app_key_cache' = app_key_cache
    /\ GuardUnchanged

\* a request reaches a handler defined under @debug_only: the wrapper of lines
\* 22-23 raises, the identity of line 242 runs the function
CallDebugOnlyHandler ==
    /\ inited
    /\ last = Idle
    /\ decorated.debug_only # None
    /\ last' = IF decorated.debug_only = "def"
               THEN [op |-> "debug_only", raised |-> "HTTPForbidden",
                     reason |-> "Admin only action", function_calls |-> 0]
               ELSE [op |-> "debug_only", raised |-> NoException,
                     reason |-> "", function_calls |-> 1]
    /\ app_key_cache' = app_key_cache
    /\ GuardUnchanged

Init ==
    /\ now = 0
    /\ application = SVC_A :> IssuedKey(SVC_A)
    /\ app_key_cache = EmptyMap
    /\ user_god = {}
    /\ team = TeamTable
    /\ team_user = {}
    /\ team_admin = {}
    /\ session_csrf \in SessionTables
    /\ bound = ModuleBindings
    /\ inited = FALSE
    /\ decorated = NotDecorated
    /\ last = Idle
    /\ not_found = {}
    /\ inflight = NoRequests

Next ==
    \/ \E config \in Configs : init(config)
    \/ DecorateLoginRequired
    \/ DecorateDebugOnly
    \/ CallGuardedHandler
    \/ WrapperAuthenticates
    \/ WrapperCallsFunction
    \/ CallDebugOnlyHandler
    \/ Respond

Spec == Init /\ [][Next]_vars

-----------------------------------------------------------------------------
(* Concurrent calls of authenticate_application *)

\* The workers run authenticate_application at the same time on the one
\* app_key_cache. A worker can be preempted between any two accesses of the
\* dict and while it waits for the store; each single dict operation (in,
\* item assignment, item read) is atomic in the interpreter.

ConcurrentKinds == {"signed", "bad digest"}

ConcurrentUnchanged ==
    UNCHANGED <<now, application, user_god, team, team_user, team_admin,
                session_csrf, bound, inited, decorated, last, not_found>>

\* the worker's call has ended: what it raised, and req.context as it left it
Finished(w, r, key_error) ==
    [pc |-> "done", auth_token |-> inflight[w].auth_token, alone |-> inflight[w].alone,
     missed |-> IF "missed" \in DOMAIN inflight[w] THEN inflight[w].missed ELSE FALSE,
     raised |-> r.raised, reason |-> r.reason, context |-> r.context,
     key_error |-> key_error]

\* lines 137-146: a worker takes a request and splits its header; nothing
\* shared is read. `alone` records what the call does when no other call runs.
Enter(w) ==
    /\ inited
    /\ inflight[w].pc = "idle"
    /\ \E kind \in ConcurrentKinds, name \in AppNames :
          LET auth_token == client_header(kind, name, IssuedKey(name), now, GuardedTuple)
              req == Request(GuardedTuple, FreshContext(GuardedTuple))
              parts == split_1(slice_from(auth_token, Len(HMAC_PREFIX)), ":")
          IN  \E r \in {authenticate_application(auth_token, req)} :
                 inflight' = [inflight EXCEPT ![w] =
                     [pc |-> "in app_key_cache", auth_token |-> auth_token, req |-> req,
                      app_name |-> parts[1], client_digest |-> parts[2],
                      alone |-> [raised |-> r.raised, reason |-> r.reason,
                                 context |-> r.context]]]
    /\ app_key_cache' = app_key_cache
    /\ ConcurrentUnchanged

\* line 147: if app_name not in app_key_cache
TestCache(w) ==
    /\ inflight[w].pc = "in app_key_cache"
    /\ LET miss == inflight[w].app_name \notin DOMAIN app_key_cache
       IN  inflight' = [inflight EXCEPT ![w] =
               [pc |-> IF miss THEN "execute" ELSE "read", missed |-> miss] @@ @]
    /\ app_key_cache' = app_key_cache
    /\ ConcurrentUnchanged

\* lines 148-151 and 155-158: the store is asked for the key; no row ends the
\* call with 'Application not found'
SelectKey(w) ==
    /\ inflight[w].pc = "execute"
    /\ LET rows == select_key(inflight[w].app_name)
       IN  inflight' = [inflight EXCEPT ![w] =
               IF Len(rows) > 0
               THEN [pc |-> "write", rows |-> rows] @@ @
               ELSE Finished(w, Unauthorized("Application not found", app_key_cache,
                                             @.req.context, 1), FALSE)]
    /\ app_key_cache' = app_key_cache
    /\ ConcurrentUnchanged

\* line 152: app_key_cache[app_name] = cursor.fetchone()[0]
WriteCache(w) ==
    /\ inflight[w].pc = "write"
    /\ app_key_cache' = cache_after_lookup(inflight[w].app_name, inflight[w].rows)
    /\ inflight' = [inflight EXCEPT ![w] = [pc |-> "read"] @@ @]
    /\ ConcurrentUnchanged

\* lines 159-170: api_key = str(app_key_cache[app_name]), a KeyError there is
\* answered 'Wrong digest' (line 169); then the digest is checked for the two
\* windows
ReadAndVerify(w) ==
    /\ inflight[w].pc = "read"
    /\ LET q == inflight[w]
           req == q.req
           path == path_with_query(req.env.PATH_INFO, req.env.QUERY_STRING)
           window == current_window(now)
       IN  inflight' = [inflight EXCEPT ![w] =
               IF q.app_name \notin DOMAIN app_key_cache
               THEN Finished(w, Unauthorized("Wrong digest", app_key_cache,
                                             req.context, 0), TRUE)
               ELSE IF \/ is_client_digest_valid(q.client_digest,
                              app_key_cache[q.app_name], window, req.method, path,
                              req.context.body)
                       \/ is_client_digest_valid(q.client_digest,
                              app_key_cache[q.app_name], previous_window(window),
                              req.method, path, req.context.body)
               THEN Finished(w, Returned(app_key_cache,
                                         ("app" :> q.app_name) @@ req.context, 0), FALSE)
               ELSE Finished(w, Unauthorized("Wrong digest", app_key_cache,
                                             req.context, 0), FALSE)]
    /\ app_key_cache' = app_key_cache
    /\ ConcurrentUnchanged

\* the response is sent and the worker is free again
Leave(w) ==
    /\ inflight[w].pc = "done"
    /\ inflight' = [inflight EXCEPT ![w] = [pc |-> "idle"]]
    /\ app_key_cache' = app_key_cache
    /\ ConcurrentUnchanged

InitConcurrent ==
    /\ now = 0
    /\ application = EmptyMap
    /\ app_key_cache = EmptyMap
    /\ user_god = {}
    /\ team = EmptyMap
    /\ team_user = {}
    /\ team_admin = {}
    /\ session_csrf = EmptyMap
    /\ bound = ModuleBindings
    /\ inited = FALSE
    /\ decorated = NotDecorated
    /\ last = Idle
    /\ not_found = {}
    /\ inflight = NoRequests

\* applications are registered while no call is in progress: the store does not
\* change under a running call
NextConcurrent ==
    \/ init([debug |-> FALSE, docs |-> FALSE])
    \/ \E name \in AppNames : inflight = NoRequests /\ RegisterApp(name)
    \/ \E w \in Workers : Enter(w)
    \/ \E w \in Workers : TestCache(w)
    \/ \E w \in Workers : SelectKey(w)
    \/ \E w \in Workers : WriteCache(w)
    \/ \E w \in Workers : ReadAndVerify(w)
    \/ \E w \in Workers : Leave(w)

ConcurrentSpec == InitConcurrent /\ [][NextConcurrent]_vars

-----------------------------------------------------------------------------
(* Claims about digest authentication, checked under DigestSpec *)

IsAuthApp == last.op = "authenticate_application"
Accepted == last.raised = NoException
Rejected == last.raised = "HTTPUnauthorized"

\* the request was signed by the named application's client with the key it was
\* issued and arrives as it was signed
HonestRequest ==
    /\ IsAuthApp
    /\ last.kind = "signed"
    /\ last.key = IssuedKey(last.name)
    /\ last.changed = {}

\* the window the client signed for, and the server's window at verification
\* (the clock does not advance while a request is served)
SignedWindow == last.t \div WINDOW
ServerWindow == now \div WINDOW

\* C2: a digest signed for window w by a registered application is accepted
\* exactly when the server's window at verification is w or w+1; at any later
\* or earlier window it is rejected with Unauthorized.
C2_AcceptedExactlyInTwoWindows ==
    (HonestRequest /\ last.registered) =>
        /\ Accepted <=> ServerWindow \in {SignedWindow, SignedWindow + 1}
        /\ ~Accepted => Rejected /\ last.reason = "Wrong digest"

C2_Witness ==
    /\ HonestRequest /\ last.registered
    /\ Accepted
    /\ ServerWindow = SignedWindow + 1

\* C3: a digest presented in its window with a tuple (method, path, query
\* string, body) that differs from the signed one is rejected.
C3_TamperingInvalidates ==
    (IsAuthApp /\ last.kind = "signed" /\ last.changed # {}) => Rejected

\* (C3, what does hold) changing exactly one of the four components invalidates
\* the digest; only changes of two or more components can leave the text as it was
C3_SingleChangeInvalidates ==
    (IsAuthApp /\ last.kind = "signed" /\ Cardinality(last.changed) = 1) => Rejected

\* C4 as stated: signed at t, a verifier at t+4 is still in window w and accepts,
\* a verifier at t+11 is in window w+2 and rejects.
C4_Original ==
    (HonestRequest /\ last.registered) =>
        /\ now = last.t + 4 => (ServerWindow = SignedWindow /\ Accepted)
        /\ now = last.t + 11 => (ServerWindow = SignedWindow + 2 /\ Rejected)

\* C4 (amended): signed at t, a verifier at t+4 is in window w or w+1 (w only
\* when t is a multiple of 5) and accepts; a verifier at t+11 is in window w+2
\* or w+3 (w+3 when t mod 5 = 4) and rejects with Unauthorized.
C4_SkewScenario ==
    (HonestRequest /\ last.registered) =>
        /\ now = last.t + 4 =>
              /\ ServerWindow = (IF last.t % WINDOW = 0 THEN SignedWindow
                                 ELSE SignedWindow + 1)
              /\ Accepted
        /\ now = last.t + 11 =>
              /\ ServerWindow = (IF last.t % WINDOW = WINDOW - 1 THEN SignedWindow + 3
                                 ELSE SignedWindow + 2)
              /\ Rejected

C4_Witness ==
    /\ HonestRequest /\ last.registered
    /\ now = last.t + 4
    /\ ServerWindow = SignedWindow + 1
    /\ Accepted

MalformedKinds == {"no prefix", "upper prefix", "no separator"}

\* C5 as stated: every malformed header (no 'hmac ' prefix, or no ':' between
\* name and digest) fails with Unauthorized 'Invalid digest format' and sets no
\* application identity.
C5_Original ==
    (IsAuthApp /\ last.kind \in MalformedKinds) =>
        /\ Rejected
        /\ last.reason = "Invalid digest format"
        /\ "app" \notin DOMAIN last.context

\* C5 (amended): a header without the prefix 'hmac ' fails with Unauthorized
\* 'Invalid digest format'; a header with the prefix but without ':' fails with
\* Unauthorized 'Wrong digest'; neither sets an application identity.
C5_MalformedHeader ==
    (IsAuthApp /\ last.kind \in MalformedKinds) =>
        /\ Rejected
        /\ last.reason = (IF last.kind = "no separator" THEN "Wrong digest"
                          ELSE "Invalid digest format")
        /\ "app" \notin DOMAIN last.context
        /\ last.connects = 0

C5_Witness ==
    /\ IsAuthApp
    /\ last.kind = "no separator"
    /\ Rejected
    /\ last.reason = "Wrong digest"

\* C6: a well-formed request naming an application that is in neither
\* app_key_cache nor the store fails with 'Application not found' and leaves
\* app_key_cache unchanged; a correctly signed request for an application that
\* is in the store but not in the cache does the lookup, caches the store's key
\* and succeeds.
C6_MissIsNotCached ==
    [][(last = Idle /\ last'.op = "authenticate_application"
            /\ last'.kind \in {"signed", "bad digest"}
            /\ last'.name \notin DOMAIN app_key_cache) =>
        /\ last'.name \notin DOMAIN application =>
              /\ last'.raised = "HTTPUnauthorized"
              /\ last'.reason = "Application not found"
              /\ "app" \notin DOMAIN last'.context
              /\ app_key_cache' = app_key_cache
        /\ (/\ last'.name \in DOMAIN application
            /\ last'.kind = "signed"
            /\ last'.key = application[last'.name]
            /\ last'.changed = {}
            /\ now \div WINDOW \in {last'.t \div WINDOW, last'.t \div WINDOW + 1}) =>
              /\ last'.raised = NoException
              /\ last'.connects = 1
              /\ last'.context.app = last'.name
              /\ app_key_cache' = (last'.name :> application[last'.name]) @@ app_key_cache
      ]_vars

\* an application answered 'Application not found' earlier, registered since,
\* is accepted through a store lookup
C6_Witness ==
    /\ IsAuthApp
    /\ last.name \in not_found
    /\ ~last.cached
    /\ last.connects = 1
    /\ Accepted
    /\ last.name \in DOMAIN app_key_cache

-----------------------------------------------------------------------------
(* Claims about the authorization checks, checked under PolicySpec *)

CheckNames == {"check_user_auth", "check_team_auth", "check_calendar_auth",
               "check_calendar_auth_by_id"}
IsCheck == last.op \in CheckNames
CheckAllowed == last.raised = NoException

\* the request was authenticated as a user, not as an application
UserRequest == "app" \notin DOMAIN last.context

\* the identity a check decides for: req.context['user'], or the user argument
\* check_calendar_auth was given (line 91)
Challenger == IF last.user # None THEN last.user ELSE last.context.user

\* C7: when the request context carries an application identity, each of the
\* four checks allows, whatever the target and the store hold, and opens no
\* store connection.
C7_ApplicationBypassesChecks ==
    (IsCheck /\ ~UserRequest) => (CheckAllowed /\ last.connects = 0)

\* an application passes a check of the module's own definition for a team
\* that has neither members nor admins
C7_Witness ==
    /\ last.op = "check_team_auth"
    /\ last.fn = "def"
    /\ ~UserRequest
    /\ team_user = {} /\ team_admin = {} /\ user_god = {}
    /\ CheckAllowed

\* every check allows every challenger who is god, for every target (each
\* content of the store is entered by a step between two requests)
GodPassesEveryCheck ==
    \A context \in UserContexts :
       /\ context.user \in user_god =>
             /\ \A user \in Users :
                   check_user_auth(user, [context |-> context]).raised = NoException
             /\ \A name \in TeamNameArgs :
                   /\ check_team_auth(name, [context |-> context]).raised = NoException
                   /\ check_calendar_auth(name, [context |-> context], None).raised
                          = NoException
             /\ \A team_id \in TeamIdArgs :
                   check_calendar_auth_by_id(team_id, [context |-> context]).raised
                       = NoException
       /\ \A user \in user_god, name \in TeamNameArgs :
             check_calendar_auth(name, [context |-> context], user).raised = NoException

\* C8: a caller whose user record has the god flag passes every check, whatever
\* the membership and admin relations and the target are; and setting a user's
\* god flag turns no check's outcome from allowed to Forbidden.
C8_SuperuserOnlyLoosens ==
    [][/\ (last = Idle /\ last' = Idle) => GodPassesEveryCheck'
       /\ (IsCheck' /\ UserRequest' /\ Challenger' \in user_god') => CheckAllowed'
       /\ (user_god' # user_god /\ user_god \subseteq user_god'
              /\ UNCHANGED <<team, team_user, team_admin>>) =>
             \A context \in UserContexts :
                /\ \A user \in Users :
                      check_user_auth(user, [context |-> context]).raised = NoException
                      => check_user_auth(user, [context |-> context])'.raised = NoException
                /\ \A name \in TeamNameArgs :
                      /\ check_team_auth(name, [context |-> context]).raised = NoException
                         => check_team_auth(name, [context |-> context])'.raised = NoException
                      /\ \A user \in Users \cup {None} :
                            check_calendar_auth(name, [context |-> context], user).raised
                                = NoException
                            => check_calendar_auth(name, [context |-> context], user)'.raised
                                = NoException
                /\ \A team_id \in TeamIdArgs :
                      check_calendar_auth_by_id(team_id, [context |-> context]).raised
                          = NoException
                      => check_calendar_auth_by_id(team_id, [context |-> context])'.raised
                          = NoException
      ]_vars

\* a god who is in no team and administers none passes a team check, after the
\* specific query found nothing and is_god was asked
C8_Witness ==
    /\ IsCheck /\ UserRequest
    /\ last.fn = "def"
    /\ Challenger \in user_god
    /\ \A t \in TeamIds : <<t, Challenger>> \notin team_user \cup team_admin
    /\ last.connects = 2
    /\ CheckAllowed

\* C9: for a request authenticated as a user, check_user_auth(target, req)
\* allows exactly when the caller is the target, or is an admin of a team the
\* target is a member of, or is god; otherwise it raises Forbidden naming the
\* caller.
C9_SelfOrTeamAdmin ==
    (last.op = "check_user_auth" /\ last.fn = "def" /\ UserRequest) =>
        LET caller == last.context.user
            target == last.target
        IN  /\ CheckAllowed <=>
                  \/ caller = target
                  \/ \E t \in TeamIds : <<t, caller>> \in team_admin /\ <<t, target>> \in team_user
                  \/ caller \in user_god
            /\ ~CheckAllowed =>
                  /\ last.raised = "HTTPForbidden"
                  /\ last.message = <<"Action not allowed for", caller>>

\* an admin of one of the target's teams, neither the target nor god, is allowed
C9_Witness ==
    /\ last.op = "check_user_auth" /\ last.fn = "def" /\ UserRequest
    /\ last.context.user # last.target
    /\ last.context.user \notin user_god
    /\ CheckAllowed

\* C10: for a request authenticated as a user, check_team_auth(name, req) allows
\* exactly when the caller is an admin of the team of that name or is god; a
\* plain member of the team, or an admin of other teams only, is Forbidden.
C10_TeamAdmin ==
    (last.op = "check_team_auth" /\ last.fn = "def" /\ UserRequest) =>
        LET caller == last.context.user
        IN  /\ CheckAllowed <=>
                  \/ \E t \in DOMAIN team : team[t] = last.target /\ <<t, caller>> \in team_admin
                  \/ caller \in user_god
            /\ ~CheckAllowed =>
                  /\ last.raised = "HTTPForbidden"
                  /\ last.message = <<"Action not allowed: is not an admin for",
                                      caller, last.target>>

\* alice, a member but no admin of sre and an admin of ops, is Forbidden for sre
C10_Witness ==
    /\ last.op = "check_team_auth" /\ last.fn = "def" /\ UserRequest
    /\ last.context.user = "alice" /\ last.target = "sre"
    /\ <<1, "alice">> \in team_user /\ <<1, "alice">> \notin team_admin
    /\ <<2, "alice">> \in team_admin
    /\ "alice" \notin user_god
    /\ last.raised = "HTTPForbidden"

IsTeamMemberCheck ==
    /\ last.op \in {"check_calendar_auth", "check_calendar_auth_by_id"}
    /\ last.fn = "def"
    /\ UserRequest

\* the ids of the teams a team-member check was asked about: those of the name
\* given to check_calendar_auth, the id given to check_calendar_auth_by_id
TargetTeamIds ==
    IF last.op = "check_calendar_auth" THEN {t \in DOMAIN team : team[t] = last.target}
    ELSE {last.target}

MemberOfTarget(u) == \E t \in TargetTeamIds : <<t, u>> \in team_user

\* the message of the Forbidden a team-member check raises for challenger u
NotMemberMessage(u) ==
    IF last.op = "check_calendar_auth"
    THEN <<"Action not allowed: is not part of", u, last.target>>
    ELSE <<"Action not allowed: is not a team member", u>>

\* C11 as stated: the team-member checks allow exactly when req.context['user']
\* is a member of the team or is god, also when check_calendar_auth is given a
\* user argument.
C11_Original ==
    IsTeamMemberCheck =>
        /\ CheckAllowed <=>
              (MemberOfTarget(last.context.user) \/ last.context.user \in user_god)
        /\ ~CheckAllowed => last.raised = "HTTPForbidden"

\* C11: for a request authenticated as a user, the team-member checks allow
\* exactly when the challenger is a member of the named or identified team or
\* is god, and raise Forbidden naming the challenger otherwise, also for a name
\* or id of no team; the challenger is req.context['user'], except that
\* check_calendar_auth given a user argument decides for that user instead.
C11_ChallengerIsMemberOrGod ==
    IsTeamMemberCheck =>
        /\ CheckAllowed <=> (MemberOfTarget(Challenger) \/ Challenger \in user_god)
        /\ ~CheckAllowed =>
              /\ last.raised = "HTTPForbidden"
              /\ last.message = NotMemberMessage(Challenger)
        /\ last.user = None => Challenger = last.context.user

\* check_calendar_auth is given a user who is a member of the team, for a
\* request of a caller who is neither a member nor god: it allows
C11_Witness ==
    /\ IsTeamMemberCheck
    /\ last.op = "check_calendar_auth"
    /\ last.user # None /\ last.user # last.context.user
    /\ MemberOfTarget(last.user)
    /\ ~MemberOfTarget(last.context.user)
    /\ last.context.user \notin user_god
    /\ CheckAllowed

\* a check of the module's own definition is asked about a team, for a request
\* authenticated as a user
IsTeamCheck ==
    /\ last.op \in {"check_team_auth", "check_calendar_auth", "check_calendar_auth_by_id"}
    /\ last.fn = "def"
    /\ UserRequest

\* the ids of the teams a team check was asked about
CheckedTeamIds ==
    IF last.op = "check_calendar_auth_by_id" THEN {last.target}
    ELSE {t \in DOMAIN team : team[t] = last.target}

AdminOfChecked(u) == \E t \in CheckedTeamIds : <<t, u>> \in team_admin

\* C12: a caller recorded as an admin of team T is allowed by check_team_auth
\* for T and by the team-member checks for T, in every content of the admin
\* and membership relations the system reaches; check_team_auth for a team the
\* caller does not administer is Forbidden unless the caller is god.
C12_AdminPassesOwnTeamOnly ==
    IsTeamCheck =>
        /\ AdminOfChecked(Challenger) => CheckAllowed
        /\ (last.op = "check_team_auth" /\ ~AdminOfChecked(Challenger)
               /\ Challenger \notin user_god) => last.raised = "HTTPForbidden"

\* an admin of sre who is no god passed the team-member check by id for sre,
\* and is an admin of no other team
C12_Witness ==
    /\ IsTeamCheck
    /\ last.op = "check_calendar_auth_by_id"
    /\ AdminOfChecked(Challenger)
    /\ Challenger \notin user_god
    /\ \A t \in TeamIds \ CheckedTeamIds : <<t, Challenger>> \notin team_admin
    /\ CheckAllowed

-----------------------------------------------------------------------------
(* Claims about login_required, checked under Spec *)

IsGuarded == last.op = "login_required"

\* init() ran with neither debug nor docs, before or after the handler was defined
DebugAndDocsOff ==
    /\ inited
    /\ bound = ModuleBindings
    /\ decorated.login_required = "def"

\* C1: with debug and docs both off, the function under login_required is
\* called only after the authenticator selected by the AUTHORIZATION header
\* returned without raising; when the authenticator raises Unauthorized the
\* function is not called for that request and no other authenticator is tried.
C1_FunctionOnlyAfterAuthentication ==
    (IsGuarded /\ DebugAndDocsOff) =>
        /\ Len(last.authenticators) <= 1
        /\ last.function_calls <= 1
        /\ last.pc \in {"function", "returned"} =>
              /\ last.authenticators =
                     <<selected_authenticator(last.req)>>
              /\ last.raised = NoException
              /\ DOMAIN last.req.context \cap {"app", "user"} # {}
        /\ last.function_calls = 1 => last.pc = "returned"
        /\ last.raised # NoException =>
              /\ last.pc = "raised"
              /\ last.function_calls = 0
              /\ Len(last.authenticators) = 1
        /\ last.raised = "HTTPUnauthorized" => ~ENABLED WrapperCallsFunction

\* a request with a wrong digest and a valid session: the one authenticator
\* raised and the function was not called
C1_Witness ==
    /\ IsGuarded /\ DebugAndDocsOff
    /\ last.raised = "HTTPUnauthorized"
    /\ last.authenticators = <<"authenticate_application">>
    /\ "user" \in DOMAIN last.req.env.beaker_session
    /\ last.function_calls = 0
    /\ last.pc = "raised"

\* the wrapper called _authenticate_user for a session with a user and an id
\* whose row of table session exists
SessionVerified ==
    /\ IsGuarded /\ DebugAndDocsOff
    /\ last.authenticators = <<"authenticate_user">>
    /\ {"user", "_id"} \subseteq DOMAIN last.req.env.beaker_session
    /\ last.req.env.beaker_session._id \in DOMAIN session_csrf

CsrfHeader == get_header(last.req, "X-CSRF-TOKEN")
StoredToken == session_csrf[last.req.env.beaker_session._id]

\* C13: for a session with a user and a stored token row, whatever the stored
\* csrf_token is, _authenticate_user fails with 'CSRF validation failed' when
\* the X-CSRF-TOKEN header is absent, is empty or differs from the stored
\* token, and succeeds only when a header is supplied and equals the token.
C13_CsrfHeaderMustMatch ==
    SessionVerified =>
        /\ (CsrfHeader = None \/ CsrfHeader = "" \/ CsrfHeader # StoredToken) =>
              /\ last.raised = "HTTPUnauthorized"
              /\ last.reason = "CSRF validation failed"
        /\ last.raised = NoException =>
              /\ CsrfHeader # None
              /\ CsrfHeader = StoredToken

\* the wrapper of login_required called authenticate_user for the request
SessionAuthenticatorCalled ==
    /\ IsGuarded
    /\ last.authenticators = <<"authenticate_user">>

\* the session and the header of the request do not pass the verification of
\* lines 174-191
FailsSessionVerification ==
    LET session == last.req.env.beaker_session
    IN  \/ "user" \notin DOMAIN session
        \/ "_id" \notin DOMAIN session
        \/ session._id \notin DOMAIN session_csrf
        \/ CsrfHeader # StoredToken

ReachesHandler == last.pc \in {"function", "returned"}

\* init() was given a true config['debug']
DebugOn == inited /\ bound.authenticate_user = "authenticate_user_test_wrapper"

\* C14: failures of session verification are downgraded to the identity
\* 'test_user' only after init ran with the debug switch set. With debug absent
\* or false a request that fails session verification reaches no handler and
\* is not given 'test_user'; with debug set a request without a signature
\* header that fails it reaches the handler as 'test_user', and one that
\* passes keeps its session user.
C14_DowngradeOnlyUnderDebug ==
    [][/\ bound.authenticate_user' # bound.authenticate_user =>
             \E config \in Configs : config.debug /\ init(config)
       /\ ~inited' => bound.authenticate_user' = "_authenticate_user"
       /\ (SessionAuthenticatorCalled /\ FailsSessionVerification /\ ~DebugOn)' =>
             /\ last.pc' = "raised"
             /\ last.function_calls' = 0
             /\ last.raised' = "HTTPUnauthorized"
             /\ ("user" \in DOMAIN last.req.context =>
                    last.req.context.user # "test_user")'
       /\ (SessionAuthenticatorCalled /\ DebugOn)' =>
             /\ ReachesHandler'
             /\ last.req.context.user' =
                   IF FailsSessionVerification' THEN "test_user"
                   ELSE last.req.env.beaker_session.user'
      ]_vars

\* under debug a request with neither a signature header nor a logged-in
\* session ran the handler as 'test_user'
C14_Witness ==
    /\ SessionAuthenticatorCalled /\ DebugOn
    /\ "AUTHORIZATION" \notin DOMAIN last.req.headers
    /\ "user" \notin DOMAIN last.req.env.beaker_session
    /\ last.req.context.user = "test_user"
    /\ last.function_calls = 1

\* init() was given a true config['docs']
DocsOn == inited /\ bound.login_required = "lambda"

\* C15: a handler under debug_only is rejected with Forbidden('Admin only
\* action') and not executed, unless init was configured for debug or for
\* docs, and then the handler runs; whether the handler was wrapped before or
\* after init.
C15_RestrictedUnlessDebugOrDocs ==
    last.op = "debug_only" =>
        IF DebugOn \/ DocsOn
        THEN last.raised = NoException /\ last.function_calls = 1
        ELSE /\ last.raised = "HTTPForbidden"
             /\ last.reason = "Admin only action"
             /\ last.function_calls = 0

\* a request entered the wrapper of login_required and an authenticator was
\* called for it
GuardAuthenticated ==
    /\ IsGuarded
    /\ inited /\ decorated.login_required = "def"
    /\ last.authenticators # <<>>

CarriesAuthorization == "AUTHORIZATION" \in DOMAIN last.req.headers
CarriesNonEmptyAuthorization ==
    CarriesAuthorization /\ last.req.headers["AUTHORIZATION"] # <<>>

\* the session and CSRF header of the request pass session verification
ValidSession ==
    /\ {"user", "_id"} \subseteq DOMAIN last.req.env.beaker_session
    /\ last.req.env.beaker_session._id \in DOMAIN session_csrf
    /\ CsrfHeader = StoredToken

\* C19 as stated: a request that carries an AUTHORIZATION header, an empty one
\* included, is verified by authenticate_application only and never through
\* its session; a request without the header by authenticate_user only.
C19_Original ==
    GuardAuthenticated =>
        IF CarriesAuthorization
        THEN /\ last.authenticators = <<"authenticate_application">>
             /\ "user" \notin DOMAIN last.req.context
        ELSE last.authenticators = <<"authenticate_user">>

\* C19: the guard selects the authenticator by the AUTHORIZATION header alone
\* and never falls back: a request with a non-empty AUTHORIZATION header is
\* verified by authenticate_application only and never through its session, so
\* with a valid session and CSRF token but an invalid or malformed signature
\* header it is rejected; a request without the header, or with an empty one,
\* is verified by authenticate_user only.
C19_NonEmptyHeaderSelects ==
    GuardAuthenticated =>
        IF CarriesNonEmptyAuthorization
        THEN /\ last.authenticators = <<"authenticate_application">>
             /\ "user" \notin DOMAIN last.req.context
             /\ "app" \notin DOMAIN last.req.context =>
                   /\ last.raised = "HTTPUnauthorized"
                   /\ last.pc = "raised"
                   /\ last.function_calls = 0
        ELSE /\ last.authenticators = <<"authenticate_user">>
             /\ "app" \notin DOMAIN last.req.context

\* a request with an empty AUTHORIZATION header and a valid session and token
\* was verified through its session and ran the handler
C19_Witness ==
    /\ GuardAuthenticated
    /\ CarriesAuthorization /\ ~CarriesNonEmptyAuthorization
    /\ ValidSession
    /\ bound.authenticate_user = "_authenticate_user"
    /\ last.authenticators = <<"authenticate_user">>
    /\ last.req.context.user = last.req.env.beaker_session.user
    /\ last.function_calls = 1

\* req.context as it was when the wrapper called the authenticator
ContextBeforeCall == FreshContext(GuardedTuple)

\* C20: when authenticate_application or _authenticate_user ends with
\* Unauthorized, the request context is exactly as it was before the call,
\* with neither a new 'app' nor a new 'user' entry.
C20_ContextUnchangedOnFailure ==
    (GuardAuthenticated /\ last.raised = "HTTPUnauthorized") =>
        /\ last.req.context = ContextBeforeCall
        /\ DOMAIN last.req.context \cap {"app", "user"} = {}

\* the authenticator called for the request has returned or raised
AuthenticatorFinished ==
    /\ IsGuarded
    /\ last.authenticators # <<>>
    /\ last.pc \in {"raised", "function", "returned"}

\* C17: every store connection an authentication operation opened is closed
\* by the time the operation returns or raises, on every exit path, a session
\* without an id field included: a finished operation holds no open connection.
C17_EveryConnectionClosed ==
    AuthenticatorFinished => last.closes = last.connects

-----------------------------------------------------------------------------
(* Claims about concurrent calls, checked under ConcurrentSpec *)

\* every entry of app_key_cache is the key the store holds for that name
CacheAgreesWithStore ==
    \A n \in DOMAIN app_key_cache :
       n \in DOMAIN application /\ app_key_cache[n] = application[n]

\* a worker about to read the cached key finds the entry, and no finished call
\* met a KeyError
ReadFindsEntry ==
    \A w \in Workers :
       /\ inflight[w].pc = "read" => inflight[w].app_name \in DOMAIN app_key_cache
       /\ inflight[w].pc = "done" => ~inflight[w].key_error

\* a finished call ended as it does when it runs alone
OutcomeAsAlone ==
    \A w \in Workers :
       inflight[w].pc = "done" =>
          /\ inflight[w].raised = inflight[w].alone.raised
          /\ inflight[w].reason = inflight[w].alone.reason
          /\ inflight[w].context = inflight[w].alone.context

\* C16: under every interleaving of concurrent authenticate_application calls
\* against a store whose keys do not change, every entry of app_key_cache is
\* the store's key for its name, entries are only added and never removed or
\* changed, the read of the cached key after the membership test always finds
\* the entry, and each call's outcome is the one it has when run alone.
C16_CacheRaceIsSafe ==
    [][/\ CacheAgreesWithStore'
       /\ \A n \in DOMAIN app_key_cache :
             n \in DOMAIN app_key_cache' /\ app_key_cache'[n] = app_key_cache[n]
       /\ ReadFindsEntry'
       /\ OutcomeAsAlone'
      ]_vars

\* two calls missed the same application name at the same time, both asked the
\* store and wrote the entry, and both were accepted
C16_Witness ==
    \E w1 \in Workers : \E w2 \in Workers \ {w1} :
       /\ inflight[w1].pc = "done" /\ inflight[w2].pc = "done"
       /\ inflight[w1].missed /\ inflight[w2].missed
       /\ inflight[w1].auth_token = inflight[w2].auth_token
       /\ inflight[w1].raised = NoException
       /\ inflight[w2].raised = NoException

====
